---------------------------- MODULE Spec2Model ----------------------------
(***************************************************************************)
(* Model of src/app.py (class SpaceBuilder) and of the direct calls of its *)
(* class methods made by src/tests.py.                                     *)
(*                                                                         *)
(* Python strings that the code inspects character by character (the five  *)
(* form fields, the lines of space_names) are sequences of one-character   *)
(* strings.  Strings the code only stores, compares and returns (the       *)
(* messages, repository names, URLs) are TLA+ strings; Python's None is    *)
(* the string "None", which no message and no URL of the program equals.   *)
(***************************************************************************)
EXTENDS Naturals, Sequences, FiniteSets, TLC

VARIABLES
    error_message,  \* SpaceBuilder.error_message (class attribute, shared)
    url,            \* SpaceBuilder.url (class attribute, shared)
    pc,             \* per thread: the statement of build_space it is at
    args,           \* per thread: the five arguments of build_space
    repo_name,      \* per thread: local repo_name
    interfaces,     \* per thread: the interfaces loaded so far
    handle,         \* per thread: state of the file object temp_file
    result,         \* per thread: what build_space returned
    repos,          \* remote: repositories created by create_repo
    uploaded,       \* remote: repositories that received app.py
    trace,          \* history, per thread: calls attempted and stage results
    recorded,       \* history, per thread: value its own steps last recorded
    clobbered,      \* history, per thread: a field it is about to read was
                    \* overwritten by another thread
    test_input,     \* argument of a class method called directly (tests.py)
    test_output     \* <<>> before that call, <<v>> once it returned v

vars == <<error_message, url, pc, args, repo_name, interfaces, handle, result,
          repos, uploaded, trace, recorded, clobbered, test_input, test_output>>

buildVars == <<pc, args, repo_name, interfaces, handle, result, repos,
               uploaded, trace, recorded, clobbered>>

(***************************************************************************)
(* Bounds                                                                  *)
(***************************************************************************)
MaxLen == 5         \* longest raw string handed to split_space_names alone
MaxIfaces == 3      \* longest interface list handed to the type check alone
MaxNamesLen == 3    \* longest space_names field handed to build_space

None == "None"
NotRun == "not run"

Chars == {"a", "b", " ", "\t", "\n"}
Whitespace == {" ", "\t", "\n"}

RECURSIVE StringsUpTo(_, _)
StringsUpTo(alphabet, n) ==
    IF n = 0 THEN {<<>>}
    ELSE LET shorter == StringsUpTo(alphabet, n - 1)
         IN  shorter \cup {Append(s, c) : s \in {x \in shorter : Len(x) = n - 1},
                                           c \in alphabet}

(***************************************************************************)
(* str.isspace and str.split("\n")                                         *)
(***************************************************************************)
isspace(s) == Len(s) >= 1 /\ \A i \in 1..Len(s) : s[i] \in Whitespace

RECURSIVE SplitLoop(_, _, _, _)
SplitLoop(s, i, cur, out) ==
    IF i > Len(s) THEN Append(out, cur)
    ELSE IF s[i] = "\n" THEN SplitLoop(s, i + 1, <<>>, Append(out, cur))
    ELSE SplitLoop(s, i + 1, Append(cur, s[i]), out)

split(s) == SplitLoop(s, 1, <<>>, <<>>)

(***************************************************************************)
(* SpaceBuilder.split_space_names                                          *)
(***************************************************************************)
RECURSIVE FilterLoop(_, _, _)
FilterLoop(name_list, i, filtered_list) ==
    IF i > Len(name_list) THEN filtered_list
    ELSE LET name == name_list[i]
         IN  IF ~(name = <<>> \/ isspace(name))
             THEN FilterLoop(name_list, i + 1, Append(filtered_list, name))
             ELSE FilterLoop(name_list, i + 1, filtered_list)

RECURSIVE strip(_)
strip(s) ==
    IF s = <<>> THEN s
    ELSE IF Head(s) \in Whitespace THEN strip(Tail(s))
    ELSE IF s[Len(s)] \in Whitespace THEN strip(SubSeq(s, 1, Len(s) - 1))
    ELSE s

RECURSIVE MapStrip(_)
MapStrip(l) == IF l = <<>> THEN <<>> ELSE <<strip(Head(l))>> \o MapStrip(Tail(l))

\* mutant: the lines are stripped before they are returned
split_space_names_strip(names) == MapStrip(FilterLoop(split(names), 1, <<>>))

RECURSIVE FilterEmptyLoop(_, _, _)
FilterEmptyLoop(name_list, i, filtered_list) ==
    IF i > Len(name_list) THEN filtered_list
    ELSE IF name_list[i] # <<>>
         THEN FilterEmptyLoop(name_list, i + 1, Append(filtered_list, name_list[i]))
         ELSE FilterEmptyLoop(name_list, i + 1, filtered_list)

\* mutant: only the empty lines are dropped (the isspace test is forgotten)
split_space_names_empty(names) == FilterEmptyLoop(split(names), 1, <<>>)

split_space_names(names) == FilterLoop(split(names), 1, <<>>)

(***************************************************************************)
(* SpaceBuilder.control_input_and_output_types                             *)
(* An interface is [input_components, output_components], each the         *)
(* sequence of the types of its components.  The result is the pair of the *)
(* returned boolean and the value of cls.error_message afterwards.         *)
(***************************************************************************)
InputTypesMsg == "Provided space input types are different"
OutputTypesMsg == "Provided space output types are different"

RECURSIVE ControlLoop(_, _, _)
ControlLoop(interface_list, i, em) ==
    IF i > Len(interface_list) THEN [ret |-> TRUE, msg |-> em]
    ELSE LET first_input_types == interface_list[1].input_components
             first_output_types == interface_list[1].output_components
             interface == interface_list[i]
         IN  IF ~(interface.input_components = first_input_types)
             THEN [ret |-> FALSE, msg |-> InputTypesMsg]
             ELSE IF ~(interface.output_components = first_output_types)
             THEN [ret |-> FALSE, msg |-> OutputTypesMsg]
             ELSE ControlLoop(interface_list, i + 1, em)

RECURSIVE ControlInputsOnlyLoop(_, _, _)
ControlInputsOnlyLoop(interface_list, i, em) ==
    IF i > Len(interface_list) THEN [ret |-> TRUE, msg |-> em]
    ELSE IF ~(interface_list[i].input_components = interface_list[1].input_components)
         THEN [ret |-> FALSE, msg |-> InputTypesMsg]
         ELSE ControlInputsOnlyLoop(interface_list, i + 1, em)

\* mutant: the output types are never compared
control_inputs_only(interface_list, em) == ControlInputsOnlyLoop(interface_list, 1, em)

control_input_and_output_types(interface_list, em) == ControlLoop(interface_list, 1, em)

(***************************************************************************)
(* build_space and the three stages it calls.                              *)
(* A thread is one worker of the web form running build_space; when its    *)
(* invocation has ended it may start the next one.                         *)
(***************************************************************************)
Threads == {"A", "B"}

FillMsg == "Please fill all the inputs"
TokenMsg == "You have given an incorrect HuggingFace token"
RequestMsg == "Can not send a request to https://huggingface.co"
LoadMsg == "One of the given space cannot be loaded to gradio, sorry for the inconvenience. \nPlease use different input space names!"
NameMsg == "Please provide a correct space name as Only regular characters and '-', '_', '.' accepted. '--' and '..' are forbidden. '-' and '.' cannot start or end the name."
WriteMsg == "An exception occurred during temporary file writing"
UploadMsg == "An exception occurred during writing app.py to the target space"
UsedMsg(repo) == "The " \o repo \o " is already used."
UrlOf(repo) == "https://huggingface.co/spaces/" \o repo

RECURSIVE Str(_)
Str(s) == IF s = <<>> THEN "" ELSE Head(s) \o Str(Tail(s))

\* huggingface_hub.get_full_repo_name when it does not raise: the name of
\* the token's user, a slash, the model id
Username(token) == "user-" \o Str(token)
get_full_repo_name(model_id, token) == Username(token) \o "/" \o Str(model_id)

\* the values the form's fields are drawn from
NameChars == {"a", " ", "\n"}
NamesValues == StringsUpTo(NameChars, MaxNamesLen)
TokenValues == {<<>>, <<"\t">>, <<"t">>}
TargetValues == {<<>>, <<" ">>, <<"a">>, <<"b">>}
TextValues == {<<>>, <<" ">>, <<"x">>}

Inputs ==
    [space_names : NamesValues, hf_token : TokenValues,
     target_space_name : TargetValues, interface_title : TextValues,
     interface_description : TextValues]

OverlapInputs ==
    [space_names : {<<"a">>}, hf_token : {<<"t">>},
     target_space_name : {<<"a">>, <<"b">>}, interface_title : {<<"x">>},
     interface_description : {<<>>, <<"x">>}]

NoArgs ==
    [space_names |-> <<>>, hf_token |-> <<>>, target_space_name |-> <<>>,
     interface_title |-> <<>>, interface_description |-> <<>>]

\* what gr.Interface.load may return for a name
FetchDescriptors ==
    { [input_components |-> <<"Textbox">>, output_components |-> <<"Label">>],
      [input_components |-> <<"Image">>, output_components |-> <<"Label">>],
      [input_components |-> <<"Textbox">>, output_components |-> <<"Image">>] }

Ended(t) == pc[t] \in {"idle", "done", "raised"}

\* history bookkeeping of a write of cls.error_message / cls.url by thread t
Log(t, events) == trace' = [trace EXCEPT ![t] = trace[t] \o events]
Overwrites(t, reader_pc) ==
    clobbered' = [u \in Threads |->
                    IF u # t /\ pc[u] = reader_pc THEN TRUE ELSE clobbered[u]]

\* cls.error_message = msg; return False (from the stage), back in build_space
Fail(t, msg, events) ==
    /\ error_message' = msg
    /\ recorded' = [recorded EXCEPT ![t] = msg]
    /\ Overwrites(t, "ret_err")
    /\ Log(t, events)
    /\ pc' = [pc EXCEPT ![t] = "ret_err"]
    /\ repo_name' = [repo_name EXCEPT ![t] = None]
    /\ interfaces' = [interfaces EXCEPT ![t] = <<>>]

Call(t, inputs) ==
    /\ Ended(t)
    /\ \E a \in inputs : args' = [args EXCEPT ![t] = a]
    /\ pc' = [pc EXCEPT ![t] = "validate"]
    /\ repo_name' = [repo_name EXCEPT ![t] = None]
    /\ interfaces' = [interfaces EXCEPT ![t] = <<>>]
    /\ handle' = [handle EXCEPT ![t] = "none"]
    /\ result' = [result EXCEPT ![t] = NotRun]
    /\ trace' = [trace EXCEPT ![t] = <<>>]
    /\ recorded' = [recorded EXCEPT ![t] = None]
    /\ clobbered' = [clobbered EXCEPT ![t] = FALSE]
    /\ UNCHANGED <<error_message, url, repos, uploaded, test_input, test_output>>

\* mutant: the last field is not checked
InputMissingButLast(a) ==
    \/ a.space_names = <<>> \/ isspace(a.space_names)
    \/ a.hf_token = <<>> \/ isspace(a.hf_token)
    \/ a.target_space_name = <<>> \/ isspace(a.target_space_name)
    \/ a.interface_title = <<>> \/ isspace(a.interface_title)

\* app.py 204-211
InputMissing(a) ==
    \/ a.space_names = <<>> \/ isspace(a.space_names)
    \/ a.hf_token = <<>> \/ isspace(a.hf_token)
    \/ a.target_space_name = <<>> \/ isspace(a.target_space_name)
    \/ a.interface_title = <<>> \/ isspace(a.interface_title)
    \/ a.interface_description = <<>> \/ isspace(a.interface_description)

testVars == <<test_input, test_output>>

\* app.py 204-211: the guard of build_space
Validate(t) ==
    /\ pc[t] = "validate"
    /\ \/ /\ InputMissing(args[t])
          /\ result' = [result EXCEPT ![t] = FillMsg]
          /\ pc' = [pc EXCEPT ![t] = "done"]
          /\ args' = [args EXCEPT ![t] = NoArgs]
       \/ /\ ~InputMissing(args[t])
          /\ pc' = [pc EXCEPT ![t] = "resolve"]
          /\ UNCHANGED <<result, args>>
    /\ UNCHANGED <<error_message, url, repo_name, interfaces, handle, repos,
                   uploaded, trace, recorded, clobbered, testVars>>

\* app.py 94-99: check_space_name_availability, the name resolution
Resolve(t) ==
    /\ pc[t] = "resolve"
    /\ \/ /\ Fail(t, TokenMsg, <<"get_full_repo_name", "availability=False">>)
       \/ /\ repo_name' = [repo_name EXCEPT ![t] =
                get_full_repo_name(args[t].target_space_name, args[t].hf_token)]
          /\ Log(t, <<"get_full_repo_name">>)
          /\ pc' = [pc EXCEPT ![t] = "probe"]
          /\ UNCHANGED <<error_message, recorded, clobbered, interfaces>>
    /\ UNCHANGED <<url, args, handle, result, repos, uploaded, testVars>>

\* mutant: status 200 records nothing
ProbeNoRecord(t) ==
    /\ pc[t] = "probe"
    /\ \/ /\ Log(t, <<"requests.get", "availability=False">>)
          /\ pc' = [pc EXCEPT ![t] = "ret_err"]
          /\ repo_name' = [repo_name EXCEPT ![t] = None]
          /\ UNCHANGED <<error_message, recorded, clobbered, interfaces>>
       \/ /\ Log(t, <<"requests.get", "availability=True">>)
          /\ pc' = [pc EXCEPT ![t] = "load"]
          /\ repo_name' = [repo_name EXCEPT ![t] = None]
          /\ UNCHANGED <<error_message, recorded, clobbered, interfaces>>
       \/ /\ Fail(t, RequestMsg, <<"requests.get", "availability=False">>)
    /\ UNCHANGED <<url, args, handle, result, repos, uploaded, testVars>>

\* mutant: a used name records its message and the build goes on
ProbeGoesOn(t) ==
    /\ pc[t] = "probe"
    /\ \/ /\ error_message' = UsedMsg(repo_name[t])
          /\ recorded' = [recorded EXCEPT ![t] = UsedMsg(repo_name[t])]
          /\ Overwrites(t, "ret_err")
          /\ Log(t, <<"requests.get", "availability=False">>)
          /\ pc' = [pc EXCEPT ![t] = "load"]
          /\ repo_name' = [repo_name EXCEPT ![t] = None]
          /\ UNCHANGED interfaces
       \/ /\ Log(t, <<"requests.get", "availability=True">>)
          /\ pc' = [pc EXCEPT ![t] = "load"]
          /\ repo_name' = [repo_name EXCEPT ![t] = None]
          /\ UNCHANGED <<error_message, recorded, clobbered, interfaces>>
       \/ /\ Fail(t, RequestMsg, <<"requests.get", "availability=False">>)
    /\ UNCHANGED <<url, args, handle, result, repos, uploaded, testVars>>

\* app.py 100-112: check_space_name_availability, the existence probe:
\* status 200, another status, or requests.get raises
Probe(t) ==
    /\ pc[t] = "probe"
    /\ \/ /\ Fail(t, UsedMsg(repo_name[t]), <<"requests.get", "availability=False">>)
       \/ /\ Log(t, <<"requests.get", "availability=True">>)
          /\ pc' = [pc EXCEPT ![t] = "load"]
          /\ repo_name' = [repo_name EXCEPT ![t] = None]
          /\ UNCHANGED <<error_message, recorded, clobbered, interfaces>>
       \/ /\ Fail(t, RequestMsg, <<"requests.get", "availability=False">>)
    /\ UNCHANGED <<url, args, handle, result, repos, uploaded, testVars>>

\* app.py 122-133: load_and_check_spaces, one gr.Interface.load of the list
\* comprehension: it raises, or returns an interface
Load(t) ==
    /\ pc[t] = "load"
    /\ LET name_list == split_space_names(args[t].space_names)
       IN  \/ /\ Fail(t, LoadMsg, <<"Interface.load", "load=False">>)
           \/ /\ \E d \in FetchDescriptors :
                    interfaces' = [interfaces EXCEPT ![t] = Append(interfaces[t], d)]
              /\ Log(t, <<"Interface.load">>)
              /\ pc' = [pc EXCEPT ![t] =
                    IF Len(interfaces[t]) + 1 >= Len(name_list) THEN "control" ELSE "load"]
              /\ UNCHANGED <<error_message, recorded, clobbered, repo_name>>
    /\ UNCHANGED <<url, args, handle, result, repos, uploaded, testVars>>

\* app.py 134-138: load_and_check_spaces, the type check and its return
Control(t) ==
    /\ pc[t] = "control"
    /\ LET r == control_input_and_output_types(interfaces[t], error_message)
       IN  IF r.ret
           THEN /\ Log(t, <<"load=True">>)
                /\ pc' = [pc EXCEPT ![t] = "create"]
                /\ interfaces' = [interfaces EXCEPT ![t] = <<>>]
                /\ UNCHANGED <<error_message, recorded, clobbered, repo_name>>
           ELSE Fail(t, r.msg, <<"load=False">>)
    /\ UNCHANGED <<url, args, handle, result, repos, uploaded, testVars>>

\* app.py 152-158: create_space, create_repo raises or creates the repository
Create(t) ==
    /\ pc[t] = "create"
    /\ \/ /\ Fail(t, NameMsg, <<"create_repo", "create=False">>)
          /\ UNCHANGED repos
       \/ /\ repos' = repos \cup
                {get_full_repo_name(args[t].target_space_name, args[t].hf_token)}
          /\ Log(t, <<"create_repo">>)
          /\ pc' = [pc EXCEPT ![t] = "resolve2"]
          /\ UNCHANGED <<error_message, recorded, clobbered, repo_name, interfaces>>
    /\ UNCHANGED <<url, args, handle, result, uploaded, testVars>>

\* app.py 159: create_space, get_full_repo_name outside any try
Resolve2(t) ==
    /\ pc[t] = "resolve2"
    /\ Log(t, <<"get_full_repo_name">>)
    /\ \/ /\ pc' = [pc EXCEPT ![t] = "raised"]
          /\ args' = [args EXCEPT ![t] = NoArgs]
          /\ UNCHANGED repo_name
       \/ /\ repo_name' = [repo_name EXCEPT ![t] =
                get_full_repo_name(args[t].target_space_name, args[t].hf_token)]
          /\ pc' = [pc EXCEPT ![t] = "open"]
          /\ UNCHANGED args
    /\ UNCHANGED <<error_message, url, interfaces, handle, result, repos,
                   uploaded, recorded, clobbered, testVars>>

\* app.py 161-163, 166-169: create_space, open("temp_file.txt", "w")
OpenFile(t) ==
    /\ pc[t] = "open"
    /\ \/ /\ Fail(t, WriteMsg, <<"open", "create=False">>)
          /\ UNCHANGED handle
       \/ /\ handle' = [handle EXCEPT ![t] = "open"]
          /\ Log(t, <<"open">>)
          /\ pc' = [pc EXCEPT ![t] = "write"]
          /\ UNCHANGED <<error_message, recorded, clobbered, repo_name, interfaces>>
    /\ UNCHANGED <<url, args, result, repos, uploaded, testVars>>

\* mutant: a failed write records its message and the upload still follows
WriteFileGoesOn(t) ==
    /\ pc[t] = "write"
    /\ \/ /\ error_message' = WriteMsg
          /\ recorded' = [recorded EXCEPT ![t] = WriteMsg]
          /\ Overwrites(t, "ret_err")
          /\ Log(t, <<"write">>)
          /\ pc' = [pc EXCEPT ![t] = "sleep"]
          /\ UNCHANGED <<handle, repo_name, interfaces>>
       \/ /\ handle' = [handle EXCEPT ![t] = "closed"]
          /\ Log(t, <<"write", "close">>)
          /\ pc' = [pc EXCEPT ![t] = "sleep"]
          /\ UNCHANGED <<error_message, recorded, clobbered, repo_name, interfaces>>
    /\ UNCHANGED <<url, args, result, repos, uploaded, testVars>>

\* app.py 164-169: create_space, temp_file.write then temp_file.close.  When
\* write raises, close is skipped: the file object stays open until the
\* interpreter reclaims it, which it may or may not have done on return.
WriteFile(t) ==
    /\ pc[t] = "write"
    /\ \/ /\ Fail(t, WriteMsg, <<"write", "create=False">>)
          /\ \E h \in {"open", "reclaimed"} : handle' = [handle EXCEPT ![t] = h]
       \/ /\ handle' = [handle EXCEPT ![t] = "closed"]
          /\ Log(t, <<"write", "close">>)
          /\ pc' = [pc EXCEPT ![t] = "sleep"]
          /\ UNCHANGED <<error_message, recorded, clobbered, repo_name, interfaces>>
    /\ UNCHANGED <<url, args, result, repos, uploaded, testVars>>

\* app.py 172: time.sleep(1)
Sleep(t) ==
    /\ pc[t] = "sleep"
    /\ pc' = [pc EXCEPT ![t] = "upload"]
    /\ UNCHANGED <<error_message, url, args, repo_name, interfaces, handle, result,
                   repos, uploaded, trace, recorded, clobbered, testVars>>

\* mutant: cls.url is assigned before upload_file is called
UploadUrlFirst(t) ==
    /\ pc[t] = "upload"
    /\ url' = UrlOf(repo_name[t])
    /\ \/ /\ uploaded' = uploaded \cup {repo_name[t]}
          /\ recorded' = [recorded EXCEPT ![t] = UrlOf(repo_name[t])]
          /\ Overwrites(t, "ret_url")
          /\ Log(t, <<"upload_file", "create=True">>)
          /\ pc' = [pc EXCEPT ![t] = "ret_url"]
          /\ repo_name' = [repo_name EXCEPT ![t] = None]
          /\ UNCHANGED <<error_message, interfaces>>
       \/ /\ Fail(t, UploadMsg, <<"upload_file", "create=False">>)
          /\ UNCHANGED uploaded
    /\ UNCHANGED <<args, handle, result, repos, testVars>>

\* app.py 173-188: create_space, upload_file succeeds and cls.url is set, or
\* it raises
Upload(t) ==
    /\ pc[t] = "upload"
    /\ \/ /\ uploaded' = uploaded \cup {repo_name[t]}
          /\ url' = UrlOf(repo_name[t])
          /\ recorded' = [recorded EXCEPT ![t] = UrlOf(repo_name[t])]
          /\ Overwrites(t, "ret_url")
          /\ Log(t, <<"upload_file", "create=True">>)
          /\ pc' = [pc EXCEPT ![t] = "ret_url"]
          /\ repo_name' = [repo_name EXCEPT ![t] = None]
          /\ UNCHANGED <<error_message, interfaces>>
       \/ /\ Fail(t, UploadMsg, <<"upload_file", "create=False">>)
          /\ UNCHANGED <<url, uploaded>>
    /\ UNCHANGED <<args, handle, result, repos, testVars>>

\* app.py 213, 215, 217: return SpaceBuilder.error_message
ReturnError(t) ==
    /\ pc[t] = "ret_err"
    /\ result' = [result EXCEPT ![t] = error_message]
    /\ pc' = [pc EXCEPT ![t] = "done"]
    /\ args' = [args EXCEPT ![t] = NoArgs]
    /\ UNCHANGED <<error_message, url, repo_name, interfaces, handle, repos,
                   uploaded, trace, recorded, clobbered, testVars>>

\* app.py 219: return SpaceBuilder.url
ReturnUrl(t) ==
    /\ pc[t] = "ret_url"
    /\ result' = [result EXCEPT ![t] = url]
    /\ pc' = [pc EXCEPT ![t] = "done"]
    /\ args' = [args EXCEPT ![t] = NoArgs]
    /\ UNCHANGED <<error_message, url, repo_name, interfaces, handle, repos,
                   uploaded, trace, recorded, clobbered, testVars>>

Step(t) ==
    \/ Validate(t) \/ Resolve(t) \/ Probe(t) \/ Load(t) \/ Control(t)
    \/ Create(t) \/ Resolve2(t) \/ OpenFile(t) \/ WriteFile(t) \/ Sleep(t)
    \/ Upload(t) \/ ReturnError(t) \/ ReturnUrl(t)

InitBuild ==
    /\ error_message = None
    /\ url = None
    /\ pc = [t \in Threads |-> "idle"]
    /\ args = [t \in Threads |-> NoArgs]
    /\ repo_name = [t \in Threads |-> None]
    /\ interfaces = [t \in Threads |-> <<>>]
    /\ handle = [t \in Threads |-> "none"]
    /\ result = [t \in Threads |-> NotRun]
    /\ repos = {}
    /\ uploaded = {}
    /\ trace = [t \in Threads |-> <<>>]
    /\ recorded = [t \in Threads |-> None]
    /\ clobbered = [t \in Threads |-> FALSE]

(***************************************************************************)
(* Spec: build_space invocations that do not overlap (one worker).         *)
(***************************************************************************)
Init ==
    /\ InitBuild
    /\ test_input = <<>>
    /\ test_output = <<>>

Next == Call("A", Inputs) \/ Step("A")

Spec == Init /\ [][Next]_vars

(***************************************************************************)
(* SpecOverlap: two workers whose build_space invocations interleave       *)
(* statement by statement.                                                 *)
(***************************************************************************)
NextOverlap == \E t \in Threads : Call(t, OverlapInputs) \/ Step(t)

SpecOverlap == Init /\ [][NextOverlap]_vars

(***************************************************************************)
(* SpecSplit: split_space_names called directly, as tests.py does.         *)
(***************************************************************************)
InitSplit ==
    /\ InitBuild
    /\ test_input \in StringsUpTo(Chars, MaxLen)
    /\ test_output = <<>>

TestSplit ==
    /\ test_output = <<>>
    /\ test_output' = <<split_space_names(test_input)>>
    /\ UNCHANGED <<error_message, url, buildVars, test_input>>

SpecSplit == InitSplit /\ [][TestSplit]_vars

(***************************************************************************)
(* SpecTypes: control_input_and_output_types called directly on a          *)
(* non-empty list of interfaces.                                           *)
(***************************************************************************)
TypeSeqs == {<<"Textbox">>, <<"Image">>, <<"Textbox", "Image">>, <<"Image", "Textbox">>}
Descriptors == [input_components : TypeSeqs, output_components : TypeSeqs]
InterfaceLists == UNION {[1..n -> Descriptors] : n \in 1..MaxIfaces}

InitTypes ==
    /\ InitBuild
    /\ test_input \in InterfaceLists
    /\ test_output = <<>>

TestControl ==
    /\ test_output = <<>>
    /\ LET r == control_input_and_output_types(test_input, error_message)
       IN  /\ test_output' = <<r.ret>>
           /\ error_message' = r.msg
    /\ UNCHANGED <<url, buildVars, test_input>>

SpecTypes == InitTypes /\ [][TestControl]_vars

(***************************************************************************)
(* Properties                                                              *)
(***************************************************************************)
Range(f) == {f[i] : i \in DOMAIN f}

\* The lines of a raw string, by the positions of its newlines.
NewlinePositions(s) == {i \in 1..Len(s) : s[i] = "\n"}
NthNewline(s, k) ==
    CHOOSE i \in NewlinePositions(s) :
        Cardinality({j \in NewlinePositions(s) : j <= i}) = k
LineCount(s) == Cardinality(NewlinePositions(s)) + 1
LineAt(s, k) ==
    SubSeq(s, IF k = 1 THEN 1 ELSE NthNewline(s, k - 1) + 1,
              IF k = LineCount(s) THEN Len(s) ELSE NthNewline(s, k) - 1)
LinesOf(s) == [k \in 1..LineCount(s) |-> LineAt(s, k)]
HasVisibleChar(line) == \E i \in 1..Len(line) : line[i] \notin Whitespace
Trimmed(line) ==
    line # <<>> => line[1] \notin Whitespace /\ line[Len(line)] \notin Whitespace

\* C9: split_space_names returns exactly the newline-separated lines that are
\* neither empty nor whitespace-only, in their order and with duplicates
\* kept; an empty input gives an empty sequence.
C9_SplitKeepsNonBlankLines ==
    test_output # <<>> =>
        /\ test_output[1] = SelectSeq(LinesOf(test_input), HasVisibleChar)
        /\ (test_input = <<>> => test_output[1] = <<>>)

\* C9 witness: a call whose input had an empty line and a whitespace-only
\* line between two equal names, both of which were returned.
C9_Witness ==
    /\ test_output # <<>>
    /\ Len(test_output[1]) = 2
    /\ test_output[1][1] = test_output[1][2]
    /\ \E k \in 1..LineCount(test_input) : isspace(LineAt(test_input, k))
    /\ LineCount(test_input) >= 3

\* C10 as claimed: every returned identifier is trimmed.
C10_AllTrimmed ==
    test_output # <<>> => \A i \in 1..Len(test_output[1]) : Trimmed(test_output[1][i])

\* C10 amended: every returned identifier is a line of the input exactly as
\* written (leading and trailing whitespace kept) that has a
\* non-whitespace character, and every such line is returned.
C10_LinesVerbatim ==
    test_output # <<>> =>
        /\ \A i \in 1..Len(test_output[1]) :
              /\ test_output[1][i] \in Range(LinesOf(test_input))
              /\ HasVisibleChar(test_output[1][i])
        /\ \A k \in 1..LineCount(test_input) :
              HasVisibleChar(LineAt(test_input, k)) =>
                  LineAt(test_input, k) \in Range(test_output[1])

\* C10 witness: a returned identifier with leading and trailing whitespace.
C10_Witness ==
    /\ test_output # <<>>
    /\ \E i \in 1..Len(test_output[1]) :
          /\ test_output[1][i][1] \in Whitespace
          /\ test_output[1][i][Len(test_output[1][i])] \in Whitespace

\* C8: the type check returns true iff every interface has the first one's
\* input types and output types; when false, the message is that of the
\* first mismatching interface: the input message if its inputs differ,
\* else the output message.  A true result leaves the message alone.
SameAsFirst(l, i) ==
    /\ l[i].input_components = l[1].input_components
    /\ l[i].output_components = l[1].output_components
FirstMismatch(l) ==
    CHOOSE i \in 1..Len(l) :
        ~SameAsFirst(l, i) /\ \A j \in 1..(i - 1) : SameAsFirst(l, j)
C8_TypeCheck ==
    test_output # <<>> =>
        LET l == test_input
            same == \A i \in 1..Len(l) : SameAsFirst(l, i)
        IN  /\ test_output[1] = same
            /\ same => error_message = None
            /\ ~same =>
                  error_message =
                      IF l[FirstMismatch(l)].input_components # l[1].input_components
                      THEN InputTypesMsg ELSE OutputTypesMsg

\* C8 witness: the second interface differs in its outputs only, the third
\* in its inputs, and the output message was recorded.
C8_Witness ==
    /\ test_output = <<FALSE>>
    /\ Len(test_input) = 3
    /\ test_input[2].input_components = test_input[1].input_components
    /\ test_input[2].output_components # test_input[1].output_components
    /\ test_input[3].input_components # test_input[1].input_components
    /\ error_message = OutputTypesMsg

(***************************************************************************)
(* Properties of build_space                                               *)
(***************************************************************************)
Last(tr) == IF tr = <<>> THEN "" ELSE tr[Len(tr)]
StageFailed == {"availability=False", "load=False", "create=False"}
AllRepoNames ==
    {get_full_repo_name(m, k) : m \in TargetValues, k \in TokenValues}
AllUrls == {"https://huggingface.co/spaces/" \o r : r \in AllRepoNames}
StageMessages(event) ==
    CASE event = "availability=False" ->
            {TokenMsg, RequestMsg} \cup {"The " \o r \o " is already used." : r \in AllRepoNames}
      [] event = "load=False" -> {LoadMsg, InputTypesMsg, OutputTypesMsg}
      [] event = "create=False" -> {NameMsg, WriteMsg, UploadMsg}
      [] OTHER -> {}
FieldNames ==
    {"space_names", "hf_token", "target_space_name", "interface_title",
     "interface_description"}
SomeFieldBlank(a) ==
    \E f \in FieldNames : \A i \in 1..Len(a[f]) : a[f][i] \in Whitespace
OwnRepo(t) ==
    "user-" \o Str(args[t].hf_token) \o "/" \o Str(args[t].target_space_name)

\* C1: the availability check comes first; an interface is fetched only
\* after the availability check returned true; create_repo is called only
\* after the availability check and then load_and_check_spaces returned
\* true; nothing is attempted after a stage returned false, and build_space
\* then returns the message that stage recorded.
C1_StagesInOrder ==
    \A t \in Threads :
        LET tr == trace[t]
        IN  /\ tr # <<>> => tr[1] = "get_full_repo_name"
            /\ \A i \in 1..Len(tr) :
                  /\ tr[i] = "Interface.load" =>
                        \E j \in 1..(i - 1) : tr[j] = "availability=True"
                  /\ tr[i] = "create_repo" =>
                        \E j \in 1..(i - 1) : \E k \in (j + 1)..(i - 1) :
                            tr[j] = "availability=True" /\ tr[k] = "load=True"
                  /\ tr[i] \in StageFailed => i = Len(tr)
            /\ (tr # <<>> /\ Last(tr) \in StageFailed) =>
                  /\ pc[t] \in {"ret_err", "done"}
                  /\ recorded[t] \in StageMessages(Last(tr))
                  /\ pc[t] = "done" => result[t] = recorded[t]

\* C1 witness: the availability check passed, the interfaces were fetched,
\* the type check failed, and build_space returned its message.
C1_Witness ==
    /\ pc["A"] = "done"
    /\ Last(trace["A"]) = "load=False"
    /\ "availability=True" \in Range(trace["A"])
    /\ result["A"] = OutputTypesMsg

\* C2 as claimed: no exception propagates out of build_space.
C2_NoExceptionEscapes == \A t \in Threads : pc[t] # "raised"

\* C3: with an empty or whitespace-only field build_space returns the fixed
\* message, having made no call and written neither shared field.
C3_BlankFieldRejected ==
    [][\A t \in Threads :
          (pc[t] = "validate" /\ pc'[t] # "validate" /\ SomeFieldBlank(args[t])) =>
              /\ pc'[t] = "done"
              /\ result'[t] = FillMsg
              /\ trace'[t] = <<>>
              /\ error_message' = error_message
              /\ url' = url
              /\ repos' = repos
              /\ uploaded' = uploaded]_vars

\* C3 witness: an invocation rejected for a blank field, after earlier
\* invocations had left a message and a URL in the shared fields.
C3_Witness ==
    /\ pc["A"] = "done"
    /\ result["A"] = FillMsg
    /\ trace["A"] = <<>>
    /\ error_message # None
    /\ url # None

\* C4: an invocation returns a value other than the one its own steps
\* recorded only when the other invocation overwrote the shared field it was
\* about to read.
C4_ForeignValueOnlyByOverlap ==
    \A t \in Threads :
        (pc[t] = "done" /\ trace[t] # <<>> /\ result[t] # recorded[t]) => clobbered[t]

\* C4 witness: A's step failed and recorded its message, B overwrote
\* error_message before A read it, and A returned B's message.
C4_Witness ==
    /\ pc["A"] = "done"
    /\ Last(trace["A"]) \in StageFailed
    /\ result["A"] # recorded["A"]
    /\ result["A"] = recorded["B"]
    /\ clobbered["A"]

\* C5: url is written only by an invocation whose upload succeeded; a URL
\* is returned only after every stage of the same invocation succeeded, and
\* it is the URL of that invocation's own repository; an invocation with a
\* failed stage never returns a URL.
C5_UrlOnlyOnFullSuccess ==
    /\ [][url' # url =>
            \E t \in Threads :
                /\ pc[t] = "upload"
                /\ Last(trace'[t]) = "create=True"
                /\ OwnRepo(t) \in uploaded'
                /\ url' = "https://huggingface.co/spaces/" \o OwnRepo(t)]_vars
    /\ [][\A t \in Threads :
            (pc[t] = "ret_url" /\ pc'[t] = "done") =>
                /\ result'[t] = "https://huggingface.co/spaces/" \o OwnRepo(t)
                /\ OwnRepo(t) \in repos
                /\ OwnRepo(t) \in uploaded]_vars
    /\ [](\A t \in Threads :
            (pc[t] = "done" /\ result[t] \in AllUrls) =>
                /\ Last(trace[t]) = "create=True"
                /\ {"availability=True", "load=True", "create_repo", "write",
                    "close", "upload_file"} \subseteq Range(trace[t])
                /\ Range(trace[t]) \cap StageFailed = {})
    /\ [](\A t \in Threads :
            (pc[t] = "done" /\ Range(trace[t]) \cap StageFailed # {}) =>
                result[t] \notin AllUrls)

\* C5 witness: after an earlier invocation built one space, a later one
\* built another and returned the URL of its own.
C5_Witness ==
    /\ pc["A"] = "done"
    /\ result["A"] = "https://huggingface.co/spaces/user-t/b"
    /\ "user-t/a" \in uploaded

\* C6: after create_repo succeeded, a failed file write or upload goes
\* straight back with that step's message: the repository stays, url and
\* the uploads are untouched, and no upload follows a failed write.
C6_FailureAfterCreate ==
    /\ [][\A t \in Threads :
            (pc[t] \in {"open", "write", "upload"} /\ pc'[t] = "ret_err") =>
                /\ error_message' = IF pc[t] = "upload" THEN UploadMsg ELSE WriteMsg
                /\ Last(trace'[t]) = "create=False"
                /\ url' = url
                /\ repos' = repos
                /\ OwnRepo(t) \in repos'
                /\ uploaded' = uploaded]_vars
    /\ [](\A t \in Threads :
            recorded[t] \in {WriteMsg, UploadMsg} =>
                /\ pc[t] \in {"ret_err", "done"}
                /\ Last(trace[t]) = "create=False"
                /\ recorded[t] = WriteMsg => "upload_file" \notin Range(trace[t]))

\* C6 witness: build_space returned the write message and the repository it
\* created is still there, without app.py.
C6_Witness ==
    /\ pc["A"] = "done"
    /\ result["A"] = WriteMsg
    /\ "write" \in Range(trace["A"])
    /\ repos \ uploaded # {}

\* C7 as claimed: the file object is open only between open and the end of
\* step 3, whichever way the step ends.
C7_FileClosedOnEveryPath == \A t \in Threads : handle[t] = "open" => pc[t] = "write"

====
